---- MODULE Spec2Model ----
(***************************************************************************)
(* Model of the ffmpeg ingest supervisor, src/input/ingest.rs:             *)
(* ingest_server spawns ffmpeg in listen mode, forwards every non-empty    *)
(* read of its stdout to a channel, reaps it when the stream ends and      *)
(* restarts it until the termination flag is seen.                         *)
(***************************************************************************)
EXTENDS Integers, Sequences, FiniteSets, TLC

VARIABLES
    config,            \* GlobalConfig::global(), immutable
    server_cmd,        \* Vec<&str>: the argument vector, built once
    pc,                \* position of the supervisor in ingest_server
    result,            \* what ingest_server returned: "none" | "Ok" | "Err"
    is_running,        \* local `let mut is_running`
    server_is_running, \* proc_control.server_is_running (AtomicBool)
    is_terminated,     \* proc_control.is_terminated (AtomicBool)
    server_term,       \* proc_control.server_term: "none" = None, else Some(handle of
                       \* that instance)
    proc,              \* instance -> "none" | "alive" | "exited" | "reaped"
    drain,             \* instance -> state of its error_reader_thread:
                       \* "none" | "running" | "finished" | "panicked" | "joined"
    bytes_len,         \* local `bytes_len` of the last Ok read
    buffer,            \* local `buffer`
    chan,              \* messages queued in the crossbeam channel
    rx_alive,          \* the channel still has a receiver
    reads,             \* history: every positive-length read, as (length, buffer)
    sent,              \* history: every chunk accepted by the channel
    base,              \* history: Len(reads) when the current instance was spawned
    last_read,         \* history: outcome of the last read: "none"|"data"|"zero"|"err"
    spawn_args,        \* history: the argument vectors passed to spawn()
    wait_called,       \* history: instance -> proc_control.wait() was called on it
    send_failed,       \* history: a channel send has returned Err
    join_err,          \* history: the join just done returned Err (until the poll)
    loop_term,         \* history: "set" once the controller has set the flag while
                       \* the supervisor was in the current read loop, "sent" once
                       \* a chunk has been sent since, else "no"
    term_spawns,       \* history: calls of spawn() made with the flag set (up to 2)
    forced             \* history: the controller's kill for a forced shutdown is done

vars == <<config, server_cmd, pc, result, is_running, server_is_running,
          is_terminated, server_term, proc, drain, bytes_len, buffer,
          chan, rx_alive, reads, sent, base, last_read, spawn_args,
          wait_called, send_failed, join_err, loop_term, term_spawns, forced>>

(***************************************************************************)
(* Bounds of the model                                                     *)
(***************************************************************************)
\* length of the read buffer: [u8; 65088] in the source, scaled down to two
\* bytes, which keeps the two kinds of read there are: one that fills the
\* buffer and one that overwrites only its beginning
BufSize == 2
\* positive-length reads the upstream delivers over the whole run
MaxReads == 3
\* capacity of the bounded channel
ChanCap == 1

\* Two Child handles exist at most: the one spawned last ("cur": the local
\* server_proc, whose stdout ingest_reader reads) and the one spawned before
\* it ("prev"), which stays in the slot until the new handle replaces it.
Instances == {"cur", "prev"}

(***************************************************************************)
(* Configuration                                                           *)
(***************************************************************************)
\* log_format argument of ingest_server
LogFormat == "level+error"

\* a configuration with no optional stage (volume is an f64; the model
\* carries it in hundredths, 100 is 1.0)
PlainConfig ==
    [ fps |-> 25, width |-> 1024, height |-> 576, aspect |-> "1.778",
      add_logo |-> FALSE, logo_is_file |-> FALSE,
      logo |-> "logo.png", logo_opacity |-> "0.7", logo_filter |-> "overlay=W-w-12:12",
      add_loudnorm |-> FALSE, loud_i |-> -18, loud_tp |-> "-1.5", loud_lra |-> 11,
      volume |-> 100,
      input_cmd |-> <<"-f", "live_flv", "-listen", "1", "-i", "rtmp://localhost:1936/live/stream">>,
      settings |-> <<"-c:v", "mpeg2video", "-f", "mpegts", "-">> ]

\* the configurations of the model: the plain one, and one with the logo,
\* the loudness normalization and a volume other than 1.0
Configs ==
    { PlainConfig,
      [PlainConfig EXCEPT !.add_logo = TRUE, !.logo_is_file = TRUE,
                          !.add_loudnorm = TRUE, !.volume = 50,
                          !.settings = <<"-c:v", "mpeg2video", "-b:v", "50000k", "-f", "mpegts", "-">>] }

\* Display of an f64 given in hundredths: 100 -> "1", 50 -> "0.5", 125 -> "1.25"
FmtF64(h) ==
    LET w == h \div 100
        f == h % 100
    IN  IF f = 0 THEN ToString(w)
        ELSE IF f % 10 = 0 THEN ToString(w) \o "." \o ToString(f \div 10)
        ELSE IF f < 10 THEN ToString(w) \o ".0" \o ToString(f)
        ELSE ToString(w) \o "." \o ToString(f)

\* fn overlay(config) -> String
overlay(c) ==
    IF c.add_logo /\ c.logo_is_file
    THEN LET opacity == "format=rgba,colorchannelmixer=aa=" \o c.logo_opacity
             logo_loop == "loop=loop=-1:size=1:start=0"
             logo_chain == "[v];movie=" \o c.logo \o "," \o logo_loop \o "," \o opacity
         IN  logo_chain \o "[l];[v][l]" \o c.logo_filter \o ":shortest=1"
    ELSE ""

\* fn audio_filter(config) -> String
audio_filter(c) ==
    LET a0 == ";[0:a]afade=in:st=0:d=0.5"
        a1 == IF c.add_loudnorm
              THEN a0 \o ",loudnorm=I=" \o ToString(c.loud_i) \o ":TP=" \o c.loud_tp
                      \o ":LRA=" \o ToString(c.loud_lra)
              ELSE a0
        a2 == IF c.volume # 100
              THEN a1 \o ",volume=" \o FmtF64(c.volume)
              ELSE a1
    IN  a2 \o "[aout1]"

\* the `filter` string of ingest_server
filter(c) ==
    LET f0 == "[0:v]fps=" \o ToString(c.fps) \o ",scale=" \o ToString(c.width) \o ":"
                 \o ToString(c.height) \o ",setdar=dar=" \o c.aspect \o ",fade=in:st=0:d=0.5"
    IN  f0 \o overlay(c) \o "[vout1]" \o audio_filter(c)

\* the `filter_list` vector
filter_list(c) == <<"-filter_complex", filter(c), "-map", "[vout1]", "-map", "[aout1]">>

\* BuildServerCmd with the last two appends exchanged
BuildServerCmd_SettingsFirst(c, log_format) ==
    LET v0 == <<"-hide_banner", "-nostats", "-v", log_format>>
        v1 == v0 \o c.input_cmd
        v2 == v1 \o c.settings
    IN  v2 \o filter_list(c)

\* the three appends that build server_cmd
BuildServerCmd(c, log_format) ==
    LET v0 == <<"-hide_banner", "-nostats", "-v", log_format>>
        v1 == v0 \o c.input_cmd
        v2 == v1 \o filter_list(c)
    IN  v2 \o c.settings

(***************************************************************************)
(* Initial state: ingest_server has been called with a fresh ProcessControl *)
(***************************************************************************)
Init ==
    /\ config \in Configs
    /\ server_cmd = <<>>
    /\ pc = "build"
    /\ result = "none"
    /\ is_running = FALSE
    /\ server_is_running = FALSE
    /\ is_terminated = FALSE
    /\ server_term = "none"
    /\ proc = [k \in Instances |-> "none"]
    /\ drain = [k \in Instances |-> "none"]
    /\ bytes_len = 0
    /\ buffer = [i \in 1..BufSize |-> 0]
    /\ chan = <<>>
    /\ rx_alive = TRUE
    /\ reads = <<>>
    /\ sent = <<>>
    /\ base = 0
    /\ last_read = "none"
    /\ spawn_args = {}
    /\ wait_called = [k \in Instances |-> FALSE]
    /\ send_failed = FALSE
    /\ join_err = FALSE
    /\ loop_term = "no"
    /\ term_spawns = 0
    /\ forced = FALSE

(***************************************************************************)
(* The supervisor: one action per step of ingest_server                    *)
(***************************************************************************)
\* positions at which a spawned instance is the current one
InInstance == {"thread", "install", "read", "flag", "send", "exit", "wait", "join", "check"}

\* positions inside the read loop
InReadLoop == {"read", "flag", "send"}

\* lines 68-108: the filter string and the argument vector are built once
BuildCmd ==
    /\ pc = "build"
    /\ server_cmd' = BuildServerCmd(config, LogFormat)
    /\ pc' = "spawn"
    /\ UNCHANGED <<config, result, is_running, server_is_running, is_terminated,
                   server_term, proc, drain, bytes_len, buffer, chan,
                   rx_alive, reads, sent, base, last_read, spawn_args,
                   wait_called, send_failed,
                   join_err, loop_term, term_spawns, forced>>

\* Command::new("ffmpeg").args(server_cmd.clone())...spawn() returns Ok(proc).
\* The instance spawned before becomes "prev"; the slot keeps its handle.
SpawnOk ==
    /\ pc = "spawn"
    /\ proc' = [cur |-> "alive", prev |-> proc.cur]
    /\ drain' = [cur |-> "none", prev |-> drain.cur]
    /\ wait_called' = [cur |-> FALSE, prev |-> wait_called.cur]
    /\ server_term' = IF server_term = "cur" THEN "prev" ELSE server_term
    /\ spawn_args' = spawn_args \cup {server_cmd}
    /\ base' = Len(reads)
    /\ last_read' = "none"
    /\ pc' = "thread"
    /\ term_spawns' = IF is_terminated /\ term_spawns < 2 THEN term_spawns + 1
                      ELSE term_spawns
    /\ UNCHANGED <<config, server_cmd, result, is_running, server_is_running,
                   is_terminated, bytes_len, buffer, chan, rx_alive, reads,
                   sent, send_failed, join_err, loop_term, forced>>

\* spawn() returns Err: error!, then panic!
SpawnErr ==
    /\ pc = "spawn"
    /\ pc' = "panicked"
    /\ term_spawns' = IF is_terminated /\ term_spawns < 2 THEN term_spawns + 1
                      ELSE term_spawns
    /\ UNCHANGED <<config, server_cmd, result, is_running, server_is_running,
                   is_terminated, server_term, proc, drain, bytes_len,
                   buffer, chan, rx_alive, reads, sent, base, last_read,
                   spawn_args, wait_called, send_failed,
                   join_err, loop_term, forced>>

\* thread::spawn(move || stderr_reader(server_err, "Server"))
StartDrain ==
    /\ pc = "thread"
    /\ drain' = [drain EXCEPT !.cur = "running"]
    /\ pc' = "install"
    /\ UNCHANGED <<config, server_cmd, result, is_running, server_is_running,
                   is_terminated, server_term, proc, bytes_len, buffer,
                   chan, rx_alive, reads, sent, base, last_read, spawn_args,
                   wait_called, send_failed,
                   join_err, loop_term, term_spawns, forced>>

\* Install without the store into the slot: the slot keeps what it held
Install_SlotNotWritten ==
    /\ pc = "install"
    /\ is_running' = FALSE
    /\ pc' = "read"
    /\ UNCHANGED <<config, server_cmd, result, server_is_running, is_terminated,
                   server_term, proc, wait_called,
                   drain, bytes_len, buffer, chan, rx_alive, reads, sent, base,
                   last_read, spawn_args, send_failed,
                   join_err, loop_term, term_spawns, forced>>

\* *proc_control.server_term.lock().unwrap() = Some(server_proc); is_running = false
\* The Child the slot held is dropped: nothing refers to that instance again.
Install ==
    /\ pc = "install"
    /\ server_term' = "cur"
    /\ proc' = [proc EXCEPT !.prev = "none"]
    /\ wait_called' = [wait_called EXCEPT !.prev = FALSE]
    /\ is_running' = FALSE
    /\ pc' = "read"
    /\ UNCHANGED <<config, server_cmd, result, server_is_running, is_terminated,
                   drain, bytes_len, buffer, chan, rx_alive, reads, sent, base,
                   last_read, spawn_args, send_failed,
                   join_err, loop_term, term_spawns, forced>>

\* the bytes a read of n bytes leaves in the buffer: the first n are
\* overwritten with the new data (tagged d), the rest keep their old value
Filled(buf, n, d) == [i \in 1..BufSize |-> IF i <= n THEN d ELSE buf[i]]

\* ingest_reader.read(&mut buffer[..]) returns Ok(n), n > 0
ReadData(n) ==
    /\ pc = "read"
    /\ Len(reads) < MaxReads
    /\ bytes_len' = n
    /\ buffer' = Filled(buffer, n, Len(reads) + 1)
    /\ reads' = Append(reads, <<n, Filled(buffer, n, Len(reads) + 1)>>)
    /\ last_read' = "data"
    /\ pc' = "flag"
    /\ UNCHANGED <<config, server_cmd, result, is_running, server_is_running,
                   is_terminated, server_term, proc, drain, chan, rx_alive,
                   sent, base, spawn_args, wait_called, send_failed,
                   join_err, loop_term, term_spawns, forced>>

\* read returns Ok(0): the write end of the pipe is closed
ReadZero ==
    /\ pc = "read"
    /\ proc.cur # "alive"
    /\ bytes_len' = 0
    /\ last_read' = "zero"
    /\ pc' = "flag"
    /\ UNCHANGED <<config, server_cmd, result, is_running, server_is_running,
                   is_terminated, server_term, proc, drain, buffer, chan,
                   rx_alive, reads, sent, base, spawn_args, wait_called,
                   send_failed,
                   join_err, loop_term, term_spawns, forced>>

\* ReadErr treating the read error as fatal (returning instead of `break`)
ReadErr_Fatal ==
    /\ pc = "read"
    /\ last_read' = "err"
    /\ result' = "Ok"
    /\ pc' = "done"
    /\ UNCHANGED <<config, server_cmd, is_running, server_is_running,
                   is_terminated, server_term, proc, drain, bytes_len,
                   buffer, chan, rx_alive, reads, sent, base, spawn_args,
                   wait_called, send_failed,
                   join_err, loop_term, term_spawns, forced>>

\* read returns Err(e): debug!, break
ReadErr ==
    /\ pc = "read"
    /\ last_read' = "err"
    /\ pc' = "exit"
    /\ UNCHANGED <<config, server_cmd, result, is_running, server_is_running,
                   is_terminated, server_term, proc, drain, bytes_len,
                   buffer, chan, rx_alive, reads, sent, base, spawn_args,
                   wait_called, send_failed,
                   join_err, loop_term, term_spawns, forced>>

\* Flag with the first Ok read of an instance only flipping the flag: its
\* chunk is not sent
Flag_FirstChunkDropped ==
    /\ pc = "flag"
    /\ IF ~is_running
       THEN /\ server_is_running' = TRUE
            /\ is_running' = TRUE
            /\ pc' = IF bytes_len > 0 THEN "read" ELSE "exit"
       ELSE /\ UNCHANGED <<server_is_running, is_running>>
            /\ pc' = IF bytes_len > 0 THEN "send" ELSE "exit"
    /\ UNCHANGED <<config, server_cmd, result, is_terminated, server_term,
                   proc, drain, bytes_len, buffer, chan, rx_alive, reads, sent,
                   base, last_read, spawn_args, wait_called, send_failed,
                   join_err, loop_term, term_spawns, forced>>

\* Flag with the store into the shared flag left out
Flag_StoreOmitted ==
    /\ pc = "flag"
    /\ is_running' = TRUE
    /\ pc' = IF bytes_len > 0 THEN "send" ELSE "exit"
    /\ UNCHANGED <<config, server_cmd, result, server_is_running, is_terminated,
                   server_term, proc, drain, bytes_len, buffer, chan, rx_alive,
                   reads, sent, base, last_read, spawn_args, wait_called,
                   send_failed,
                   join_err, loop_term, term_spawns, forced>>

\* Flag with a poll of the termination flag in the read loop: a set flag
\* ends the loop
Flag_PollsFlag ==
    /\ pc = "flag"
    /\ IF ~is_running
       THEN server_is_running' = TRUE /\ is_running' = TRUE
       ELSE UNCHANGED <<server_is_running, is_running>>
    /\ pc' = IF bytes_len > 0 /\ ~is_terminated THEN "send" ELSE "exit"
    /\ UNCHANGED <<config, server_cmd, result, is_terminated, server_term,
                   proc, drain, bytes_len, buffer, chan, rx_alive, reads, sent,
                   base, last_read, spawn_args, wait_called, send_failed,
                   join_err, loop_term, term_spawns, forced>>

\* if !is_running { server_is_running.store(true); is_running = true }
\* then the branch on bytes_len > 0
Flag ==
    /\ pc = "flag"
    /\ IF ~is_running
       THEN server_is_running' = TRUE /\ is_running' = TRUE
       ELSE UNCHANGED <<server_is_running, is_running>>
    /\ pc' = IF bytes_len > 0 THEN "send" ELSE "exit"
    /\ UNCHANGED <<config, server_cmd, result, is_terminated, server_term, proc, drain, bytes_len, buffer, chan, rx_alive, reads, sent,
                   base, last_read, spawn_args, wait_called, send_failed,
                   join_err, loop_term, term_spawns, forced>>

\* ingest_sender.send((bytes_len, buffer)) returns Ok: blocks while the
\* channel is full
SendOk ==
    /\ pc = "send"
    /\ rx_alive
    /\ Len(chan) < ChanCap
    /\ chan' = Append(chan, <<bytes_len, buffer>>)
    /\ sent' = Append(sent, <<bytes_len, buffer>>)
    /\ pc' = "read"
    /\ loop_term' = IF loop_term = "set" THEN "sent" ELSE loop_term
    /\ UNCHANGED <<config, server_cmd, result, is_running, server_is_running,
                   is_terminated, server_term, proc, drain, bytes_len,
                   buffer, rx_alive, reads, base, last_read, spawn_args,
                   wait_called, send_failed,
                   join_err, term_spawns, forced>>

\* SendErr leaving only the read loop (`break` for `break 'ingest_iter`)
SendErr_BreakInner ==
    /\ pc = "send"
    /\ ~rx_alive
    /\ is_terminated' = TRUE
    /\ send_failed' = TRUE
    /\ pc' = "exit"
    /\ UNCHANGED <<config, server_cmd, result, is_running, server_is_running,
                   server_term, proc, drain, bytes_len, buffer, chan,
                   rx_alive, reads, sent, base, last_read, spawn_args,
                   wait_called,
                   join_err, loop_term, term_spawns, forced>>

\* SendErr handing the send error to the caller (`return Err(..)`)
SendErr_ReturnsErr ==
    /\ pc = "send"
    /\ ~rx_alive
    /\ is_terminated' = TRUE
    /\ send_failed' = TRUE
    /\ result' = "Err"
    /\ pc' = "done"
    /\ UNCHANGED <<config, server_cmd, is_running, server_is_running,
                   server_term, proc, drain, bytes_len, buffer, chan,
                   rx_alive, reads, sent, base, last_read, spawn_args,
                   wait_called,
                   join_err, loop_term, term_spawns, forced>>

\* send returns Err (no receiver left): error!, is_terminated.store(true),
\* break 'ingest_iter, Ok(())
SendErr ==
    /\ pc = "send"
    /\ ~rx_alive
    /\ is_terminated' = TRUE
    /\ send_failed' = TRUE
    /\ result' = "Ok"
    /\ pc' = "done"
    /\ loop_term' = "no"
    /\ UNCHANGED <<config, server_cmd, is_running, server_is_running,
                   server_term, proc, drain, bytes_len, buffer, chan,
                   rx_alive, reads, sent, base, last_read, spawn_args,
                   wait_called,
                   join_err, term_spawns, forced>>

\* drop(ingest_reader); server_is_running.store(false)
ExitLoop ==
    /\ pc = "exit"
    /\ server_is_running' = FALSE
    /\ pc' = "wait"
    /\ loop_term' = "no"
    /\ UNCHANGED <<config, server_cmd, result, is_running, is_terminated,
                   server_term, proc, drain, bytes_len, buffer, chan,
                   rx_alive, reads, sent, base, last_read, spawn_args,
                   wait_called, send_failed,
                   join_err, term_spawns, forced>>

\* ProcessControl::wait: it blocks until the subprocess whose handle is in
\* the slot has exited
WaitReturns(slot, p) == slot # "none" /\ p[slot] = "exited"

\* ProcessControl::wait: the subprocess whose handle is in the slot is reaped
Reaped(slot, p) == [p EXCEPT ![slot] = "reaped"]

\* proc_control.wait(Ingest) returns Ok
WaitOk ==
    /\ pc = "wait"
    /\ WaitReturns(server_term, proc)
    /\ proc' = Reaped(server_term, proc)
    /\ wait_called' = [wait_called EXCEPT ![server_term] = TRUE]
    /\ pc' = "join"
    /\ UNCHANGED <<config, server_cmd, result, is_running, server_is_running,
                   is_terminated, server_term, drain, bytes_len, buffer,
                   chan, rx_alive, reads, sent, base, last_read, spawn_args,
                   send_failed,
                   join_err, loop_term, term_spawns, forced>>

\* WaitErr escalating the failure: the flag is set and the function returns
WaitErr_Fatal ==
    /\ pc = "wait"
    /\ wait_called' = IF server_term = "none" THEN wait_called
                       ELSE [wait_called EXCEPT ![server_term] = TRUE]
    /\ is_terminated' = TRUE
    /\ result' = "Ok"
    /\ pc' = "done"
    /\ UNCHANGED <<config, server_cmd, is_running, server_is_running,
                   server_term, proc, drain, bytes_len,
                   buffer, chan, rx_alive, reads, sent, base, last_read,
                   spawn_args, send_failed,
                   join_err, loop_term, term_spawns, forced>>

\* proc_control.wait(Ingest) returns Err (the wait itself fails): error!
WaitErr ==
    /\ pc = "wait"
    /\ wait_called' = IF server_term = "none" THEN wait_called
                       ELSE [wait_called EXCEPT ![server_term] = TRUE]
    /\ pc' = "join"
    /\ UNCHANGED <<config, server_cmd, result, is_running, server_is_running,
                   is_terminated, server_term, proc, drain, bytes_len,
                   buffer, chan, rx_alive, reads, sent, base, last_read,
                   spawn_args, send_failed,
                   join_err, loop_term, term_spawns, forced>>

\* Join with the handle of the thread dropped instead of joined: the
\* supervisor goes on while the thread may still run
Join_Detached ==
    /\ pc = "join"
    /\ pc' = "check"
    /\ UNCHANGED <<config, server_cmd, result, is_running, server_is_running,
                   is_terminated, server_term, proc, drain, bytes_len, buffer,
                   chan, rx_alive, reads, sent, base, last_read, spawn_args,
                   wait_called, send_failed,
                   join_err, loop_term, term_spawns, forced>>

\* error_reader_thread.join(): blocks until the thread has ended; Err (only
\* logged) when the thread panicked
Join ==
    /\ pc = "join"
    /\ drain.cur \in {"finished", "panicked"}
    /\ drain' = [drain EXCEPT !.cur = "joined"]
    /\ pc' = "check"
    /\ join_err' = (drain.cur = "panicked")
    /\ UNCHANGED <<config, server_cmd, result, is_running, server_is_running,
                   is_terminated, server_term, proc, bytes_len, buffer,
                   chan, rx_alive, reads, sent, base, last_read, spawn_args,
                   wait_called, send_failed,
                   loop_term, term_spawns, forced>>

\* Check without the poll of the flag: the loop always restarts
Check_NoPoll ==
    /\ pc = "check"
    /\ pc' = "spawn"
    /\ UNCHANGED <<config, server_cmd, result, is_running, server_is_running,
                   is_terminated, server_term, proc, drain, bytes_len,
                   buffer, chan, rx_alive, reads, sent, base, last_read,
                   spawn_args, wait_called, send_failed,
                   join_err, loop_term, term_spawns, forced>>

\* if proc_control.is_terminated.load() { break } ... Ok(())
Check ==
    /\ pc = "check"
    /\ IF is_terminated
       THEN pc' = "done" /\ result' = "Ok"
       ELSE pc' = "spawn" /\ result' = result
    /\ join_err' = FALSE
    /\ UNCHANGED <<config, server_cmd, is_running, server_is_running,
                   is_terminated, server_term, proc, drain, bytes_len,
                   buffer, chan, rx_alive, reads, sent, base, last_read,
                   spawn_args, wait_called, send_failed,
                   loop_term, term_spawns, forced>>

Supervisor ==
    \/ BuildCmd
    \/ SpawnOk
    \/ SpawnErr
    \/ StartDrain
    \/ Install
    \/ \E n \in 1..BufSize : ReadData(n)
    \/ ReadZero
    \/ ReadErr
    \/ Flag
    \/ SendOk
    \/ SendErr
    \/ ExitLoop
    \/ WaitOk
    \/ WaitErr
    \/ Join
    \/ Check

(***************************************************************************)
(* The environment: the subprocess, the drain thread, the channel's        *)
(* consumer and the external controller                                    *)
(***************************************************************************)
\* the subprocess exits on its own (its pipes close)
ProcExit(k) ==
    /\ proc[k] = "alive"
    /\ proc' = [proc EXCEPT ![k] = "exited"]
    /\ UNCHANGED <<config, server_cmd, pc, result, is_running, server_is_running,
                   is_terminated, server_term, drain, bytes_len, buffer,
                   chan, rx_alive, reads, sent, base, last_read, spawn_args,
                   wait_called, send_failed,
                   join_err, loop_term, term_spawns, forced>>

\* the external controller kills the subprocess whose handle is in the slot
Kill ==
    /\ server_term # "none"
    /\ proc[server_term] = "alive"
    /\ proc' = [proc EXCEPT ![server_term] = "exited"]
    /\ UNCHANGED <<config, server_cmd, pc, result, is_running, server_is_running,
                   is_terminated, server_term, drain, bytes_len, buffer,
                   chan, rx_alive, reads, sent, base, last_read, spawn_args,
                   wait_called, send_failed,
                   join_err, loop_term, term_spawns, forced>>

\* stderr_reader returns: the subprocess's stderr reached end of input
DrainFinish(k) ==
    /\ drain[k] = "running"
    /\ proc[k] # "alive"
    /\ drain' = [drain EXCEPT ![k] = "finished"]
    /\ UNCHANGED <<config, server_cmd, pc, result, is_running, server_is_running,
                   is_terminated, server_term, proc, bytes_len, buffer,
                   chan, rx_alive, reads, sent, base, last_read, spawn_args,
                   wait_called, send_failed,
                   join_err, loop_term, term_spawns, forced>>

\* the drain thread itself fails
DrainPanic(k) ==
    /\ drain[k] = "running"
    /\ drain' = [drain EXCEPT ![k] = "panicked"]
    /\ UNCHANGED <<config, server_cmd, pc, result, is_running, server_is_running,
                   is_terminated, server_term, proc, bytes_len, buffer,
                   chan, rx_alive, reads, sent, base, last_read, spawn_args,
                   wait_called, send_failed,
                   join_err, loop_term, term_spawns, forced>>

\* the consumer takes the oldest chunk from the channel
Recv ==
    /\ rx_alive
    /\ chan # <<>>
    /\ chan' = Tail(chan)
    /\ UNCHANGED <<config, server_cmd, pc, result, is_running, server_is_running,
                   is_terminated, server_term, proc, drain, bytes_len,
                   buffer, rx_alive, reads, sent, base, last_read, spawn_args,
                   wait_called, send_failed,
                   join_err, loop_term, term_spawns, forced>>

\* the consumer drops its receiver
Disconnect ==
    /\ rx_alive
    /\ rx_alive' = FALSE
    /\ chan' = <<>>
    /\ UNCHANGED <<config, server_cmd, pc, result, is_running, server_is_running,
                   is_terminated, server_term, proc, drain, bytes_len,
                   buffer, reads, sent, base, last_read, spawn_args,
                   wait_called, send_failed,
                   join_err, loop_term, term_spawns, forced>>

\* the external controller requests termination: is_terminated.store(true)
SetTerminated ==
    /\ ~is_terminated
    /\ is_terminated' = TRUE
    /\ loop_term' = IF pc \in InReadLoop THEN "set" ELSE loop_term
    /\ UNCHANGED <<config, server_cmd, pc, result, is_running, server_is_running,
                   server_term, proc, drain, bytes_len, buffer, chan,
                   rx_alive, reads, sent, base, last_read, spawn_args,
                   wait_called, send_failed,
                   join_err, term_spawns, forced>>

Environment ==
    \/ \E k \in Instances : ProcExit(k)
    \/ Kill
    \/ \E k \in Instances : DrainFinish(k)
    \/ \E k \in Instances : DrainPanic(k)
    \/ Recv
    \/ Disconnect
    \/ SetTerminated

Next == Supervisor \/ Environment

Spec == Init /\ [][Next]_vars

\* the steps of the supervisor that wait for nothing but the scheduler, or
\* whose wait has ended: a read that can return zero bytes, a send once the
\* channel has room or has lost its receiver, a wait once the subprocess has
\* exited, a join once the thread has ended. Data, a read error and a wait
\* error are outcomes the environment may never produce.
Progress ==
    \/ BuildCmd
    \/ SpawnOk
    \/ SpawnErr
    \/ StartDrain
    \/ Install
    \/ ReadZero
    \/ Flag
    \/ SendOk
    \/ SendErr
    \/ ExitLoop
    \/ WaitOk
    \/ Join
    \/ Check

\* the supervisor thread keeps running, every subprocess eventually exits,
\* a drain thread ends once its stream has, the consumer keeps receiving
Fairness ==
    /\ WF_vars(Progress)
    /\ \A k \in Instances : WF_vars(ProcExit(k))
    /\ \A k \in Instances : WF_vars(DrainFinish(k))
    /\ WF_vars(Recv)

FairSpec == Init /\ [][Next]_vars /\ Fairness

(***************************************************************************)
(* Forced shutdown: the controller sets the termination flag and then      *)
(* kills the subprocess whose handle the slot holds, once; no subprocess   *)
(* exits on its own                                                        *)
(***************************************************************************)
\* the controller, the flag set, kills what the slot holds at that moment:
\* an empty slot or the handle of a subprocess that has exited leaves every
\* subprocess as it is
ForceKill ==
    /\ is_terminated
    /\ ~forced
    /\ forced' = TRUE
    /\ proc' = IF server_term # "none" /\ proc[server_term] = "alive"
               THEN [proc EXCEPT ![server_term] = "exited"]
               ELSE proc
    /\ UNCHANGED <<config, server_cmd, pc, result, is_running, server_is_running,
                   is_terminated, server_term, drain, bytes_len, buffer,
                   chan, rx_alive, reads, sent, base, last_read, spawn_args,
                   wait_called, send_failed,
                   join_err, loop_term, term_spawns>>

NextForced ==
    \/ Supervisor
    \/ \E k \in Instances : DrainFinish(k)
    \/ \E k \in Instances : DrainPanic(k)
    \/ Recv
    \/ Disconnect
    \/ SetTerminated
    \/ ForceKill

\* the supervisor thread keeps running, a drain thread ends once its stream
\* has, the consumer keeps receiving; nothing but the kill makes a
\* subprocess exit
FairnessForced ==
    /\ WF_vars(Progress)
    /\ \A k \in Instances : WF_vars(DrainFinish(k))
    /\ WF_vars(Recv)

ForcedSpec == Init /\ [][NextForced]_vars /\ FairnessForced

(***************************************************************************)
(* Properties                                                              *)
(***************************************************************************)
\* (C1, state part) the chunks sent are, in order, the positive-length reads, at most one
\* read not yet sent; when an instance's read loop ends on a zero-byte read
\* every non-empty read of it has been sent; the supervisor then calls wait
\* on that instance, joins and, with the flag not set, goes on to spawn.
C1_State ==
    /\ Len(sent) <= Len(reads)
    /\ Len(reads) - Len(sent) <= 1
    /\ sent = SubSeq(reads, 1, Len(sent))
    /\ (pc = "exit" /\ last_read = "zero") => Len(sent) = Len(reads)

C1_Step ==
    /\ pc = "exit" => pc' \in {"exit", "wait"}
    /\ (pc = "wait" /\ pc' # "wait") => (pc' = "join" /\ server_term = "cur" /\ wait_called'.cur)
    /\ pc = "join" => pc' \in {"join", "check"}
    /\ (pc = "check" /\ ~is_terminated /\ pc' # "check") => pc' = "spawn"
    /\ (pc = "spawn" /\ pc' # "spawn") =>
           \/ pc' = "thread" /\ proc'.cur = "alive"
           \/ pc' = "panicked"

\* C1: in every state the chunks sent are the reads in read order, one
\* behind at most, and every step keeps the order send, wait, join, poll, spawn.
C1_ChunksInReadOrder == [](C1_State) /\ [][C1_Step]_vars

\* an instance gave three non-empty reads, then a zero-byte read, and all
\* three chunks were sent
C1_Witness ==
    /\ pc = "wait"
    /\ last_read = "zero"
    /\ Len(reads) - base = 3
    /\ Len(sent) = Len(reads)

\* C2: once the termination flag is set while an instance is the current one,
\* it stays set, no further subprocess is spawned, and the step after the reap
\* and the join is the return of Ok.
C2_Step ==
    /\ is_terminated => is_terminated'
    /\ (is_terminated /\ pc \in InInstance) => pc' \in InInstance \cup {"done"}
    /\ (is_terminated /\ pc \in InInstance) => spawn_args' = spawn_args
    /\ (is_terminated /\ pc = "check" /\ pc' # "check") => (pc' = "done" /\ result' = "Ok")

\* C2: every step obeys: a flag set during an instance stays set, no spawn
\* follows, and the poll returns Ok.
C2_NoRestartAfterTermination == [][C2_Step]_vars

\* the flag was set by the controller, the instance was reaped and joined,
\* and ingest_server returned Ok
C2_Witness ==
    /\ pc = "done"
    /\ result = "Ok"
    /\ ~send_failed
    /\ proc.cur = "reaped"
    /\ drain.cur = "joined"

\* C3: when a send fails the termination flag is set in the same step and
\* the supervisor is out of the loop: no read, send or spawn follows.
C3_State == send_failed => (is_terminated /\ pc = "done")

C3_Step ==
    /\ (~send_failed /\ send_failed') => (is_terminated' /\ pc' = "done")
    /\ send_failed => (reads' = reads /\ sent' = sent /\ spawn_args' = spawn_args
                       /\ pc' = "done")

\* C3: a failed send sets the flag at once and ends the supervisor: nothing
\* is read, sent or spawned afterwards.
C3_SendFailureTerminates == [](C3_State) /\ [][C3_Step]_vars

\* a send failed while the subprocess was alive with data still to deliver
C3_Witness ==
    /\ send_failed
    /\ proc.cur = "alive"
    /\ Len(reads) < MaxReads

\* C4: when the supervisor has set the running flag for the current
\* instance, that instance has completed a read of positive length.
C4_RunningOnlyAfterData ==
    (pc \in InReadLoop \cup {"exit"} /\ is_running) => Len(reads) > base

\* C5: outside the read loop of a live instance the running flag is false.
C5_NotRunningOutsideLoop ==
    pc \in {"wait", "join", "check", "spawn", "thread", "install", "done"}
        => ~server_is_running

\* C6 (steps): a poll that finds the flag unset is followed by a spawn, and
\* ingest_server returns only with the flag set.
C6_Step ==
    /\ (pc = "check" /\ ~is_terminated /\ pc' # "check") => pc' = "spawn"
    /\ (pc # "done" /\ pc' = "done") => is_terminated'

\* C6: a read loop ended by a zero-byte read or a read error leads to the
\* poll of the flag, and a poll that finds it unset to a spawn; unless the
\* flag gets set (or a spawn fails, which panics) a subprocess is spawned
\* again and again: with the flag never set ingest_server never returns.
C6_RestartsForever ==
    /\ [][C6_Step]_vars
    /\ [](pc = "done" => is_terminated)
    /\ (pc = "exit" /\ last_read \in {"zero", "err"}) ~> (pc = "check")
    /\ []<>(pc = "thread" \/ is_terminated \/ pc = "panicked")

\* a restart with the flag not set: an instance was spawned after the read
\* loop of the one before it ended by a read error on its first read
C6_Witness ==
    /\ pc = "thread"
    /\ proc.prev # "none"
    /\ ~is_terminated
    /\ ~is_running

\* C7: after a spawn failure the termination flag is set.
C7_SpawnFailureSetsFlag == pc = "panicked" => is_terminated

\* the argument vector as the concatenation the claim gives
ExpectedArgs(c) ==
    <<"-hide_banner", "-nostats", "-v", LogFormat>>
        \o c.input_cmd
        \o <<"-filter_complex", filter(c), "-map", "[vout1]", "-map", "[aout1]">>
        \o c.settings

\* C8: every spawn, in every restart cycle, is given the same argument
\* vector: verbosity flags, input arguments, filter graph and pad mapping,
\* output settings, in this order.
C8_SameArgsEverySpawn ==
    /\ \A a \in spawn_args : a = ExpectedArgs(config)
    /\ pc \in InInstance => spawn_args # {}

\* a subprocess was spawned in a restart cycle
C8_Witness ==
    /\ pc = "thread"
    /\ proc.prev \in {"exited", "reaped"}
    /\ spawn_args # {}

\* C9: ingest_server returns nothing but Ok, after the poll of a set flag or
\* after a send failure; its only other exit is the panic of a failed spawn.
C9_State ==
    /\ result \in {"none", "Ok"}
    /\ pc = "done" <=> result = "Ok"

C9_Step ==
    /\ (pc # "done" /\ pc' = "done") =>
           \/ pc = "check" /\ is_terminated
           \/ pc = "send" /\ send_failed'
    /\ (pc # "panicked" /\ pc' = "panicked") => pc = "spawn"

C10_JoinedAndReapedBeforeReturn ==
    pc = "done" => (drain.cur = "joined" /\ wait_called.cur)

\* drain threads started and not yet joined
Unjoined == {k \in Instances : drain[k] \in {"running", "finished", "panicked"}}

\* (C11, state part) the thread of the instance before the current one has
\* been joined, and at most one thread is not yet joined
C11_State ==
    /\ drain.prev \in {"none", "joined"}
    /\ Cardinality(Unjoined) <= 1

\* (C11, step part) a spawn happens only with the thread of the instance
\* before it joined
C11_Step ==
    (pc = "spawn" /\ pc' = "thread") => (drain.cur \in {"none", "joined"} /\ Unjoined = {})

\* C11: the drain thread of an instance is joined before the next instance
\* is spawned, so at most one drain thread is not yet joined at any moment.
C11_OneDrainThread == [](C11_State) /\ [][C11_Step]_vars

\* the thread of a restarted instance runs, the one before it is joined
C11_Witness ==
    /\ drain.cur = "running"
    /\ drain.prev = "joined"

C15_State == Len(sent) > base => is_running

\* (C15, step part) a chunk is sent only with the running flag true
C15_Step == Len(sent') > Len(sent) => (is_running /\ server_is_running)

\* C15: for every instance the store of true into the running flag comes
\* before the first chunk of that instance is sent.
C15_RunningBeforeFirstChunk == [](C15_State) /\ [][C15_Step]_vars

\* a chunk of a restarted instance has been sent, the flag being true
C15_Witness ==
    /\ pc = "read"
    /\ drain.prev = "joined"
    /\ Len(sent) > base
    /\ server_is_running

\* C16: while the drain thread of the current instance runs, the slot holds
\* the handle of that instance (the handle is installed before the thread
\* is started).
C16_InstalledBeforeDrainStarts ==
    drain.cur = "running" => server_term = "cur"

(***************************************************************************)
(* C13: a read error, a failure of wait and a failure of join are absorbed *)
(***************************************************************************)
\* between the end of the read loop and the termination check the supervisor
\* has not returned and has not panicked
C13_State == pc \in {"exit", "wait", "join", "check"} => result = "none"

\* a read error leads to the end of the read loop, the end of the read loop
\* to wait, wait (failed or not) to join, join (failed or not) to the
\* termination check, the check to a restart when the flag is not set; none
\* of these steps sets the flag or returns, except the check of a set flag
C13_Step ==
    /\ (pc = "read" /\ last_read' = "err")
          => (pc' = "exit" /\ is_terminated' = is_terminated /\ result' = "none")
    /\ (pc = "exit" /\ pc' # pc)
          => (pc' = "wait" /\ is_terminated' = is_terminated /\ result' = "none")
    /\ (pc = "wait" /\ pc' # pc)
          => (pc' = "join" /\ is_terminated' = is_terminated /\ result' = "none")
    /\ (pc = "join" /\ pc' # pc)
          => (pc' = "check" /\ is_terminated' = is_terminated /\ result' = "none")
    /\ (pc = "check" /\ pc' # pc /\ ~is_terminated)
          => (pc' = "spawn" /\ ~is_terminated' /\ result' = "none")

\* C13: a read error on the primary stream, a failure of wait and a failure
\* to join the drain thread do not set the termination flag and do not make
\* ingest_server return or panic; the supervisor goes on with wait, join,
\* the termination check and, the flag not set, the restart.
C13_ErrorsAbsorbed == [](C13_State) /\ [][C13_Step]_vars

\* the read of an instance failed, wait returned while the subprocess was
\* not reaped (the wait failed), the join failed, and the supervisor stands
\* at the termination check with the flag not set
C13_Witness ==
    /\ pc = "check"
    /\ last_read = "err"
    /\ wait_called.cur
    /\ proc.cur # "reaped"
    /\ join_err
    /\ ~is_terminated
    /\ result = "none"

(***************************************************************************)
(* C14: cancellation is cooperative                                        *)
(***************************************************************************)
\* the read loop ends on a zero-byte read, a read error or a failed send and
\* on nothing else; the termination check is entered from the join only,
\* the instance waited on and its thread joined; the function returns from
\* the check of a set flag or from a failed send only
C14_Step ==
    /\ (pc \in InReadLoop /\ pc' \notin InReadLoop)
          => \/ pc' = "exit" /\ last_read' \in {"zero", "err"}
             \/ pc = "send" /\ ~rx_alive /\ pc' = "done"
    /\ (pc = "flag" /\ pc' # pc /\ bytes_len > 0) => pc' = "send"
    /\ (pc = "send" /\ pc' # pc /\ rx_alive)
          => (pc' = "read" /\ sent' = Append(sent, <<bytes_len, buffer>>))
    /\ (pc # "check" /\ pc' = "check")
          => (pc = "join" /\ wait_called.cur /\ drain'.cur = "joined")
    /\ (pc # "done" /\ pc' = "done")
          => \/ pc = "check" /\ is_terminated
             \/ pc = "send" /\ ~rx_alive
    /\ (pc = "check" /\ pc' # pc)
          => pc' = IF is_terminated THEN "done" ELSE "spawn"

\* C14: the supervisor reads the termination flag once per outer iteration,
\* after the wait and the join of the current instance; a flag set while
\* the supervisor is in the read loop does not end the loop, chunks keep
\* being read and sent until a zero-byte read or a read error.
C14_CooperativeCancellation == [][C14_Step]_vars

\* the flag was set while the supervisor was in the read loop, a chunk was
\* sent after that and one more chunk has been read
C14_Witness ==
    /\ loop_term = "sent"
    /\ is_terminated
    /\ pc = "flag"
    /\ last_read = "data"

(***************************************************************************)
(* C17: at most one spawn after the termination flag is set                *)
(***************************************************************************)
\* no second attempt to spawn is made with the flag set
C17_State == term_spawns <= 1

\* a spawn made with the flag set is the first such one, and the flag once
\* set stays set
C17_Step ==
    /\ (pc = "spawn" /\ pc' # pc /\ is_terminated) => term_spawns = 0
    /\ is_terminated => is_terminated'

\* C17: once the termination flag is set, by the controller at any point or
\* by the supervisor, the supervisor spawns at most once more; a flag set
\* between the check and the next spawn still lets one subprocess start.
C17_OneSpawnAfterFlag == [](C17_State) /\ [][C17_Step]_vars

\* the flag was set after the check of one cycle had restarted the loop,
\* and the next subprocess has been spawned all the same
C17_Witness ==
    /\ term_spawns = 1
    /\ pc = "thread"
    /\ proc.cur = "alive"
    /\ wait_called.prev

(***************************************************************************)
(* C18: in the read loop the slot holds the handle of the instance read    *)
(***************************************************************************)
\* in the read loop the slot holds the handle of the current instance
C18_State == pc \in InReadLoop => server_term = "cur"

\* a kill of the held handle made in the read loop ends the subprocess
\* whose stdout is being read
C18_Step == (pc \in InReadLoop /\ ~forced /\ forced') => proc'.cur = "exited"

\* C18: whenever the supervisor is inside the read loop the slot holds the
\* handle of the subprocess whose stdout is read, so a kill of the held
\* handle at that time hits that instance and its read loop ends.
C18_KillEndsReadLoop ==
    /\ [](C18_State)
    /\ [][C18_Step]_vars
    /\ (pc \in InReadLoop /\ proc.cur = "exited") ~> (pc \notin InReadLoop)

\* the controller's kill came while the supervisor was in the read loop of
\* an instance it had already sent a chunk of, and the instance has exited
C18_Witness ==
    /\ pc \in InReadLoop
    /\ forced
    /\ proc.cur = "exited"
    /\ server_term = "cur"
    /\ Len(sent) > base

(***************************************************************************)
(* C19: forced shutdown under every interleaving                           *)
(***************************************************************************)
\* C19: once the controller has set the flag and killed the handle the slot
\* held at that moment, ingest_server eventually returns (or has panicked
\* on a failed spawn), whatever the point of the supervisor's execution.
\* Runs in which the consumer has dropped its receiver or the read of the
\* current instance has failed are left out of the statement.
C19_ForcedShutdownReturns ==
    forced ~> (pc \in {"done", "panicked"} \/ ~rx_alive \/ last_read = "err")

====
